---- MODULE Spec2Model ----
(***************************************************************************)
(* korbit_tools: diff-hunk interpretation (diff_representation.py) and the *)
(* snippet locator (string_search.py).                                     *)
(*                                                                         *)
(* Strings are sequences of one-character strings, so that the regular     *)
(* expressions, strip(), split() and the substring test are computed on    *)
(* characters as the Python code computes them.  Positions are 1-based;    *)
(* a match function returns the position after the match, 0 on failure.    *)
(***************************************************************************)
EXTENDS Integers, Sequences, FiniteSets, TLC

(***************************************************************************)
(* Bounds of the model.                                                    *)
(***************************************************************************)
MaxDiffLines == 2
MaxContentLines == 3

NL == "\n"
SP == " "

Min(a, b) == IF a <= b THEN a ELSE b

(***************************************************************************)
(* Python string primitives.                                               *)
(***************************************************************************)
Whitespace == {SP, NL}

RECURSIVE LStrip(_)
LStrip(s) ==
    IF s # <<>> /\ Head(s) \in Whitespace THEN LStrip(Tail(s)) ELSE s

RECURSIVE RStrip(_)
RStrip(s) ==
    IF s # <<>> /\ s[Len(s)] \in Whitespace
    THEN RStrip(SubSeq(s, 1, Len(s) - 1))
    ELSE s

\* str.strip()
Strip(s) == RStrip(LStrip(s))

\* str.startswith(prefix)
StartsWith(s, prefix) ==
    /\ Len(prefix) <= Len(s)
    /\ SubSeq(s, 1, Len(prefix)) = prefix

\* `sub in s`
Contains(s, sub) ==
    \E i \in 0..(Len(s) - Len(sub)) : SubSeq(s, i + 1, i + Len(sub)) = sub

\* the only element of a one-element set
Only(S) == CHOOSE x \in S : TRUE

\* position of the first newline of a string that has one
FirstNL(s) == CHOOSE i \in 1..Len(s) : s[i] = NL /\ \A j \in 1..(i - 1) : s[j] # NL

\* str.split("\n"): always at least one piece, empty pieces kept
RECURSIVE Split(_)
Split(s) ==
    IF \A i \in 1..Len(s) : s[i] # NL
    THEN <<s>>
    ELSE Only({<<SubSeq(s, 1, p - 1)>> \o Split(SubSeq(s, p + 1, Len(s))) :
                  p \in {FirstNL(s)}})

\* str.splitlines(): no piece for the empty string or after a final newline
SplitLines(s) ==
    IF s = <<>> THEN <<>>
    ELSE IF s[Len(s)] = NL THEN Split(SubSeq(s, 1, Len(s) - 1))
    ELSE Split(s)

\* "\n".join(lines)
RECURSIVE Join(_)
Join(lines) ==
    IF lines = <<>> THEN <<>>
    ELSE IF Len(lines) = 1 THEN lines[1]
    ELSE lines[1] \o <<NL>> \o Join(Tail(lines))

(***************************************************************************)
(* models.py: LineNumberRange.  None (the missing Optional) is the range   *)
(* (-1, -1), which no lookup produces.                                     *)
(***************************************************************************)
LineNumberRange(start, end) == [start_number |-> start, end_number |-> end]

None == LineNumberRange(-1, -1)

(***************************************************************************)
(* string_search.py: the snippet locator.                                  *)
(***************************************************************************)

\* s[e-2..e] = "..."
DotsEndAt(s, e) == e >= 3 /\ \A i \in (e - 2)..e : s[i] = "."

\* re.sub(r"(\[|\{)?\.\.\.(\]|\})?$", "", s): the marker is anchored at the
\* end of the line; the leftmost match takes the opening bracket when present.
ReSubEllipsis(s) ==
    LET n == Len(s)
        coreEnd == IF n >= 1 /\ s[n] \in {"]", "}"} /\ DotsEndAt(s, n - 1)
                   THEN n - 1
                   ELSE IF DotsEndAt(s, n) THEN n ELSE 0
        coreStart == coreEnd - 2
        from == IF coreStart > 1 /\ s[coreStart - 1] \in {"[", "{"}
                THEN coreStart - 1
                ELSE coreStart
    IN  IF coreEnd = 0 THEN s ELSE SubSeq(s, 1, from - 1)

\* code_snippet.strip().splitlines()
SnippetRawLines(code_snippet) == SplitLines(Strip(code_snippet))

\* split_and_process_snippet raises IndexError on code_snippet_lines[0] when
\* the stripped snippet has no line.
SplitRaises(code_snippet) == SnippetRawLines(code_snippet) = <<>>

\* the marker removed from the beginning of the line too
WithoutLeadingMarker(s) ==
    IF Len(s) >= 3 /\ SubSeq(s, 1, 3) = <<".", ".", ".">>
    THEN SubSeq(s, 4, Len(s))
    ELSE s

ProcessLinesUnanchored(raw) ==
    [i \in 1..Len(raw) |->
        Strip(IF Len(raw) = 1
              THEN WithoutLeadingMarker(ReSubEllipsis(ReSubEllipsis(raw[i])))
              ELSE IF i = 1 \/ i = Len(raw)
                   THEN WithoutLeadingMarker(ReSubEllipsis(raw[i]))
                   ELSE raw[i])]

\* lines 16-18 on the lines of the stripped snippet: the marker is removed
\* from line [0], then from line [-1] (the same line when there is only one),
\* then every line is stripped
ProcessLines(raw) ==
    [i \in 1..Len(raw) |->
        Strip(IF Len(raw) = 1 THEN ReSubEllipsis(ReSubEllipsis(raw[i]))
              ELSE IF i = 1 \/ i = Len(raw) THEN ReSubEllipsis(raw[i])
              ELSE raw[i])]

split_and_process_snippet(code_snippet) ==
    Only({ProcessLines(raw) : raw \in {SnippetRawLines(code_snippet)}})

(***************************************************************************)
(* fuzz.ratio (fuzzywuzzy over difflib.SequenceMatcher): 100 for equal     *)
(* strings, 0 when one is empty, else round(100 * 2M / T) where M is the   *)
(* size of the matching blocks (longest block first, then left and right   *)
(* of it) and T the sum of the lengths.                                    *)
(***************************************************************************)
MatchingBlocks(a, b) ==
    {t \in (1..Len(a)) \X (1..Len(b)) \X (1..Min(Len(a), Len(b))) :
        /\ t[1] + t[3] - 1 <= Len(a)
        /\ t[2] + t[3] - 1 <= Len(b)
        /\ SubSeq(a, t[1], t[1] + t[3] - 1) = SubSeq(b, t[2], t[2] + t[3] - 1)}

\* find_longest_match: longest, then earliest in a, then earliest in b
LongestOf(blocks) ==
    CHOOSE t \in blocks :
        \A u \in blocks :
            \/ u[3] < t[3]
            \/ u[3] = t[3] /\ t[1] < u[1]
            \/ u[3] = t[3] /\ t[1] = u[1] /\ t[2] <= u[2]

\* the size of the matching blocks: the longest one, and those of the parts
\* left and right of it
RECURSIVE MatchCount(_, _)
MatchCountAround(a, b, t) ==
    t[3]
    + MatchCount(SubSeq(a, 1, t[1] - 1), SubSeq(b, 1, t[2] - 1))
    + MatchCount(SubSeq(a, t[1] + t[3], Len(a)), SubSeq(b, t[2] + t[3], Len(b)))

MatchCountOf(a, b, blocks) ==
    IF blocks = {} THEN 0
    ELSE Only({MatchCountAround(a, b, t) : t \in {LongestOf(blocks)}})

MatchCount(a, b) ==
    Only({MatchCountOf(a, b, blocks) : blocks \in {MatchingBlocks(a, b)}})

\* int(round(x)) of num / den, halves to the even neighbour
RoundDiv(num, den) ==
    LET q == num \div den
        r == num % den
    IN  IF 2 * r > den THEN q + 1
        ELSE IF 2 * r = den /\ q % 2 = 1 THEN q + 1
        ELSE q

FuzzRatio(a, b) ==
    IF a = b THEN 100
    ELSE IF a = <<>> \/ b = <<>> THEN 0
    ELSE RoundDiv(200 * MatchCount(a, b), Len(a) + Len(b))

FuzzThreshold == 90

\* the test of get_line_idx_in_content (line 25)
EndLineMatches(end_line, content_line, fuzzy_match) ==
    \/ fuzzy_match /\ FuzzRatio(end_line, Strip(content_line)) > FuzzThreshold
    \/ Contains(content_line, end_line)

\* 0-based index of the first matching line, -1 when there is none
get_line_idx_in_content(end_line, lines, fuzzy_match) ==
    IF \E i \in 1..Len(lines) : EndLineMatches(end_line, lines[i], fuzzy_match)
    THEN (CHOOSE i \in 1..Len(lines) :
              /\ EndLineMatches(end_line, lines[i], fuzzy_match)
              /\ \A j \in 1..(i - 1) :
                     ~EndLineMatches(end_line, lines[j], fuzzy_match)) - 1
    ELSE -1

\* the index found in the slice taken for an index of the whole list
LineNumberRangeNoOffset(start_line_idx, lines, end_line, fuzzy_match) ==
    IF start_line_idx >
           get_line_idx_in_content(
               end_line, SubSeq(lines, start_line_idx + 1, Len(lines)), fuzzy_match)
    THEN None
    ELSE LineNumberRange(
             start_line_idx + 1,
             get_line_idx_in_content(
                 end_line, SubSeq(lines, start_line_idx + 1, Len(lines)),
                 fuzzy_match) + 1)

\* start_line_idx is 0-based; content_lines[start_line_idx:] is the slice
get_line_number_range(start_line_idx, lines, end_line, fuzzy_match) ==
    LET end_line_idx ==
            get_line_idx_in_content(
                end_line, SubSeq(lines, start_line_idx + 1, Len(lines)),
                fuzzy_match) + start_line_idx
    IN  IF start_line_idx > end_line_idx
        THEN None
        ELSE LineNumberRange(start_line_idx + 1, end_line_idx + 1)

\* the test on the start line in scan_content (lines 52-57)
StartLineMatches(start_line, content_line, fuzzy_match) ==
    IF fuzzy_match
    THEN FuzzRatio(start_line, Strip(content_line)) > FuzzThreshold
    ELSE Contains(content_line, start_line)

\* the scan going on at the next line, whether or not a range was appended
AfterIterationByOneLine(i, ranges, line_number_range) ==
    IF line_number_range # None
    THEN [idx |-> i + 1, ranges |-> Append(ranges, line_number_range)]
    ELSE [idx |-> i + 1, ranges |-> ranges]

\* lines 58-61: the list and the index after an iteration at index i
AfterIteration(i, ranges, line_number_range) ==
    IF line_number_range # None
    THEN [idx |-> (line_number_range.end_number - 1) + 1,
          ranges |-> Append(ranges, line_number_range)]
    ELSE [idx |-> i + 1, ranges |-> ranges]

\* the index advanced only when the start line matches
ScanIterationStalls(i, ranges, lines, start_line, end_line, fuzzy_match) ==
    IF StartLineMatches(start_line, lines[i + 1], fuzzy_match)
    THEN AfterIteration(i, ranges,
                        get_line_number_range(i, lines, end_line, fuzzy_match))
    ELSE [idx |-> i, ranges |-> ranges]

\* one iteration of the while loop of scan_content, at 0-based index i
ScanIteration(i, ranges, lines, start_line, end_line, fuzzy_match) ==
    AfterIteration(
        i, ranges,
        IF StartLineMatches(start_line, lines[i + 1], fuzzy_match)
        THEN get_line_number_range(i, lines, end_line, fuzzy_match)
        ELSE None)

\* scan_content(fuzzy_match): the loop run to its end from index i
RECURSIVE scan_content(_, _, _, _, _, _)
ScanFrom(it, lines, start_line, end_line, fuzzy_match) ==
    scan_content(it.idx, it.ranges, lines, start_line, end_line, fuzzy_match)

scan_content(i, ranges, lines, start_line, end_line, fuzzy_match) ==
    IF i < Len(lines)
    THEN ScanFrom(ScanIteration(i, ranges, lines, start_line, end_line, fuzzy_match),
                  lines, start_line, end_line, fuzzy_match)
    ELSE ranges

\* the fuzzy pass run whatever the exact pass found
AlwaysFuzzyPass(ranges) == TRUE

\* the fuzzy pass runs when the exact pass left the list empty (line 65)
NeedsFuzzyPass(ranges) == Len(ranges) = 0

\* lines 65-74, after the exact pass
AfterExactPass(exact, lines, start_line, end_line) ==
    IF NeedsFuzzyPass(exact)
    THEN scan_content(0, exact, lines, start_line, end_line, TRUE)
    ELSE exact

LinesRanges(lines, start_line, end_line) ==
    AfterExactPass(scan_content(0, <<>>, lines, start_line, end_line, FALSE),
                   lines, start_line, end_line)

get_line_number_ranges_in_content(start_line, end_line, content) ==
    LinesRanges(Split(content), start_line, end_line)

FirstAndLast(code_snippet_lines, content) ==
    get_line_number_ranges_in_content(
        code_snippet_lines[1], code_snippet_lines[Len(code_snippet_lines)], content)

\* defined when split_and_process_snippet does not raise
find_line_number_ranges_of_code_snippet_in_content(code_snippet, content) ==
    FirstAndLast(split_and_process_snippet(code_snippet), content)

(***************************************************************************)
(* diff_representation.py: the regular expressions of DiffRepresentation.  *)
(* A count position of a header pattern is ",\d+" (required), ",?\d*"      *)
(* (optional) or absent.  \d+ and \d* are greedy and are followed by a     *)
(* character that is no digit, so the greedy match is the only one.        *)
(***************************************************************************)
Digits == {"0", "1", "2", "3", "4", "5", "6", "7", "8", "9"}

DigitValue(c) ==
    CASE c = "0" -> 0 [] c = "1" -> 1 [] c = "2" -> 2 [] c = "3" -> 3
      [] c = "4" -> 4 [] c = "5" -> 5 [] c = "6" -> 6 [] c = "7" -> 7
      [] c = "8" -> 8 [] c = "9" -> 9

\* int(text) of a run of decimal digits
RECURSIVE int(_)
int(text) ==
    IF Len(text) = 1 THEN DigitValue(text[1])
    ELSE 10 * int(SubSeq(text, 1, Len(text) - 1)) + DigitValue(text[Len(text)])

\* position after the literal at p, 0 when the literal is not there
MatchLiteral(s, p, lit) ==
    IF p >= 1 /\ p + Len(lit) - 1 <= Len(s) /\ SubSeq(s, p, p + Len(lit) - 1) = lit
    THEN p + Len(lit)
    ELSE 0

\* position after the run of digits that starts at p (p when there is none)
RECURSIVE DigitsEnd(_, _)
DigitsEnd(s, p) ==
    IF p <= Len(s) /\ s[p] \in Digits THEN DigitsEnd(s, p + 1) ELSE p

\* \d+ at p: position after it, 0 when no digit stands at p
MatchNumber(s, p) ==
    IF p >= 1 /\ DigitsEnd(s, p) > p THEN DigitsEnd(s, p) ELSE 0

\* the count position at p: ",\d+" (required), ",?\d*" (optional), or nothing
MatchCountPart(s, p, mode) ==
    IF mode = "required"
    THEN MatchNumber(s, MatchLiteral(s, p, <<",">>))
    ELSE IF mode = "optional"
         THEN DigitsEnd(s, IF MatchLiteral(s, p, <<",">>) # 0 THEN p + 1 ELSE p)
         ELSE p

Literal(text) == [kind |-> "literal", arg |-> text]
Number == [kind |-> "number", arg |-> <<>>]
Count(mode) == [kind |-> "count", arg |-> mode]

\* "@@ -\d+<old count> \+\d+<new count> @@"
HeaderPattern(oldMode, newMode) ==
    <<Literal(<<"@", "@", " ", "-">>), Number, Count(oldMode),
      Literal(<<" ", "+">>), Number, Count(newMode),
      Literal(<<" ", "@", "@">>)>>

MatchToken(s, p, tok) ==
    IF tok.kind = "literal" THEN MatchLiteral(s, p, tok.arg)
    ELSE IF tok.kind = "number" THEN MatchNumber(s, p)
         ELSE MatchCountPart(s, p, tok.arg)

\* the positions after each token of the pattern from token k on, matched at p;
\* matching stops at the first token that fails, whose position is 0
RECURSIVE MatchTokens(_, _, _, _)
MatchTokensNext(s, q, toks, k) ==
    IF q = 0 THEN <<0>> ELSE <<q>> \o MatchTokens(s, q, toks, k + 1)

MatchTokens(s, p, toks, k) ==
    IF k > Len(toks) THEN <<>>
    ELSE MatchTokensNext(s, MatchToken(s, p, toks[k]), toks, k)

NoMatch == [end |-> 0]

\* the match and its groups, from the positions e after the seven tokens
HeaderMatch(s, p, e) ==
    IF e[Len(e)] = 0 THEN NoMatch
    ELSE [end |-> e[7],
          text |-> SubSeq(s, p, e[7] - 1),
          old_start |-> SubSeq(s, e[1], e[2] - 1),
          old_count |-> SubSeq(s, e[2] + 1, e[3] - 1),
          new_start |-> SubSeq(s, e[4], e[5] - 1),
          new_count |-> SubSeq(s, e[5] + 1, e[6] - 1)]

MatchHeaderAt(s, p, oldMode, newMode) ==
    HeaderMatch(s, p, MatchTokens(s, p, HeaderPattern(oldMode, newMode), 1))

\* position of the first newline at or after c, Len(s) + 1 when there is none
LineEnd(s, c) ==
    IF \E i \in c..Len(s) : s[i] = NL
    THEN CHOOSE i \in c..Len(s) : s[i] = NL /\ \A j \in c..(i - 1) : s[j] # NL
    ELSE Len(s) + 1

\* " (.+)" after a header: a space at c - 1 and the rest of the line from c,
\* which must hold at least one character
RestOfLine(s, c) ==
    IF c = 0 \/ LineEnd(s, c) = c THEN NoMatch
    ELSE [end |-> LineEnd(s, c), text |-> SubSeq(s, c, LineEnd(s, c) - 1)]

ContextAfter(s, m) ==
    IF m = NoMatch THEN NoMatch ELSE RestOfLine(s, MatchLiteral(s, m.end, <<SP>>))

MatchAt(s, p, oldMode, newMode, context) ==
    IF context
    THEN ContextAfter(s, MatchHeaderAt(s, p, oldMode, newMode))
    ELSE MatchHeaderAt(s, p, oldMode, newMode)

\* re.findall: leftmost matches, left to right, not overlapping
RECURSIVE FindAllFrom(_, _, _, _, _)
FindAllNext(s, p, m, oldMode, newMode, context) ==
    IF m = NoMatch
    THEN FindAllFrom(s, p + 1, oldMode, newMode, context)
    ELSE <<m>> \o FindAllFrom(s, m.end, oldMode, newMode, context)

FindAllFrom(s, p, oldMode, newMode, context) ==
    IF p > Len(s) THEN <<>>
    ELSE FindAllNext(s, p, MatchAt(s, p, oldMode, newMode, context),
                     oldMode, newMode, context)

Texts(ms) == [i \in 1..Len(ms) |-> ms[i].text]

\* regex_diff_hunk_header = r"@@ -\d+,\d+ \+\d+,\d+ @@ (.+)": the context texts
regex_diff_hunk_header(s) ==
    Texts(FindAllFrom(s, 1, "required", "required", TRUE))

\* regex_diff_line_number_group = r"(@@ -\d+,?\d* \+\d+,?\d* @@)": the markers
regex_diff_line_number_group(s) ==
    Texts(FindAllFrom(s, 1, "optional", "optional", FALSE))

FourGroups(ms) ==
    [i \in 1..Len(ms) |->
        <<ms[i].old_start, ms[i].old_count, ms[i].new_start, ms[i].new_count>>]

\* regex_diff_line_number_pattern = r"@@ -(\d+),(\d+) \+(\d+),(\d+) @@"
regex_diff_line_number_pattern(s) ==
    FourGroups(FindAllFrom(s, 1, "required", "required", FALSE))

TwoGroups(ms) == [i \in 1..Len(ms) |-> <<ms[i].old_start, ms[i].new_start>>]

\* the one-line pattern with the new side's ",?\d*" of the group pattern
OneLinePatternWithNewCount(s) ==
    TwoGroups(FindAllFrom(s, 1, "optional", "optional", FALSE))

\* regex_diff_one_line_number_pattern = r"@@ -(\d+),?\d* \+(\d+) @@"
regex_diff_one_line_number_pattern(s) ==
    TwoGroups(FindAllFrom(s, 1, "optional", "none", FALSE))

(***************************************************************************)
(* diff_representation.py: the parsing queries.  A pair is                 *)
(* <<old range, new range>>.                                               *)
(***************************************************************************)
\* the inclusive end, start + count - 1, in place of start + count
MatchPairInclusiveEnd(start_line, num_edit_lines) ==
    LineNumberRange(start_line, start_line + num_edit_lines - 1)

_get_line_number_range_from_match_pair(start_line, num_edit_lines) ==
    LineNumberRange(start_line, start_line + num_edit_lines)

_get_line_numbers_edited_one_line(regex_results) ==
    [i \in 1..Len(regex_results) |->
        <<_get_line_number_range_from_match_pair(int(regex_results[i][1]), 1),
          _get_line_number_range_from_match_pair(int(regex_results[i][2]), 1)>>]

_get_line_numbers_edited_multiple_lines(regex_results) ==
    [i \in 1..Len(regex_results) |->
        <<_get_line_number_range_from_match_pair(
              int(regex_results[i][1]), int(regex_results[i][2])),
          _get_line_number_range_from_match_pair(
              int(regex_results[i][3]), int(regex_results[i][4]))>>]

\* lines 68-71: the fallback to the one-line pattern
EditedFromResults(d, regex_results) ==
    IF regex_results = <<>>
    THEN _get_line_numbers_edited_one_line(regex_diff_one_line_number_pattern(d))
    ELSE _get_line_numbers_edited_multiple_lines(regex_results)

_get_line_numbers_edited_in_both_files(d) ==
    IF d = <<>> THEN <<>>
    ELSE EditedFromResults(d, regex_diff_line_number_pattern(d))

Column(pairs, c) == [i \in 1..Len(pairs) |-> pairs[i][c]]

get_line_numbers_edited_in_old_file(d) ==
    Column(_get_line_numbers_edited_in_both_files(d), 1)

get_line_numbers_edited_in_new_file(d) ==
    Column(_get_line_numbers_edited_in_both_files(d), 2)

\* lines 120-121: the start is overwritten when the locator found a range
WithStartFrom(line_number_range, line_range_from_hunk_header) ==
    IF line_range_from_hunk_header # <<>>
    THEN [line_number_range EXCEPT
             !.start_number = line_range_from_hunk_header[1].start_number]
    ELSE line_number_range

\* one iteration of `for match, line_number_range in zip(...)`: the loop over
\* the lines of the diff from line j on.  The range's start_number is
\* overwritten for every line that starts with the marker and carries a
\* four-number header with context; `raised` when the locator raises.
RECURSIVE ExtendOverLines(_, _, _, _, _)
ExtendLine(diff_lines, j, match, line_number_range, content, hunk_header_result) ==
    IF StartsWith(diff_lines[j], match) /\ hunk_header_result # <<>>
    THEN IF SplitRaises(hunk_header_result[1])
         THEN [range |-> line_number_range, raised |-> TRUE]
         ELSE ExtendOverLines(
                  diff_lines, j + 1, match,
                  WithStartFrom(
                      line_number_range,
                      find_line_number_ranges_of_code_snippet_in_content(
                          hunk_header_result[1], content)),
                  content)
    ELSE ExtendOverLines(diff_lines, j + 1, match, line_number_range, content)

ExtendOverLines(diff_lines, j, match, line_number_range, content) ==
    IF j > Len(diff_lines)
    THEN [range |-> line_number_range, raised |-> FALSE]
    ELSE ExtendLine(diff_lines, j, match, line_number_range, content,
                    regex_diff_hunk_header(diff_lines[j]))

(***************************************************************************)
(* Inputs.  A diff is written from hunk lines, a snippet from its lines;   *)
(* the program sees only the rendered strings.                             *)
(***************************************************************************)
DigitChar(d) ==
    CASE d = 0 -> "0" [] d = 1 -> "1" [] d = 2 -> "2" [] d = 3 -> "3"
      [] d = 4 -> "4" [] d = 5 -> "5" [] d = 6 -> "6" [] d = 7 -> "7"
      [] d = 8 -> "8" [] d = 9 -> "9"

RECURSIVE Decimal(_)
Decimal(n) ==
    IF n < 10 THEN <<DigitChar(n)>>
    ELSE Decimal(n \div 10) \o <<DigitChar(n % 10)>>

\* the header line git writes for a hunk: both counts, no count, or only
\* the new count (the old count of 1 left out)
RenderHunk(h) ==
    <<"@", "@", " ", "-">> \o Decimal(h.o)
    \o (IF h.form = "four" THEN <<",">> \o Decimal(h.oc) ELSE <<>>)
    \o <<" ", "+">> \o Decimal(h.n)
    \o (IF h.form \in {"four", "newcount"} THEN <<",">> \o Decimal(h.nc) ELSE <<>>)
    \o <<" ", "@", "@">> \o h.rest

Foo == <<"f", "o", "o", "(">>
Bar == <<"b", "a", "r", ")">>

HunkFourContext ==
    [form |-> "four", o |-> 2, oc |-> 2, n |-> 2, nc |-> 3, rest |-> <<SP>> \o Foo]
HunkFourPlain ==
    [form |-> "four", o |-> 10, oc |-> 0, n |-> 12, nc |-> 4, rest |-> <<>>]
HunkSingleContext ==
    [form |-> "single", o |-> 5, oc |-> 1, n |-> 4, nc |-> 1, rest |-> <<SP>> \o Foo]
HunkFourBlank ==
    [form |-> "four", o |-> 7, oc |-> 1, n |-> 7, nc |-> 1, rest |-> <<SP, SP>>]
HunkNewCount ==
    [form |-> "newcount", o |-> 8, oc |-> 1, n |-> 9, nc |-> 2, rest |-> <<SP>> \o Foo]

\* the marker of HunkFourContext without its context
HunkFourTwin == [HunkFourContext EXCEPT !.rest = <<>>]

HunkLines ==
    {HunkFourContext, HunkFourPlain, HunkSingleContext, HunkFourBlank, HunkNewCount,
     HunkFourTwin}

SeqsUpTo(S, lo, hi) == UNION {[1..k -> S] : k \in lo..hi}

LineFoo == <<SP>> \o Foo \o <<"a">>
LineX == <<"x">>
LineBar == Bar
LineDotsBar == <<".", ".", ".">> \o Bar
LineFuzzy == <<"a", "b", "X", "c", "d", "e">>
LineXyz == <<"x", "y", "z">>

DiffFileLines == {LineFoo, LineX}
LocatorFileLines == {LineFoo, LineBar, LineDotsBar, LineFuzzy, LineXyz}

Contents(S) == {Join(ls) : ls \in SeqsUpTo(S, 1, MaxContentLines)}

Dots == <<".", ".", ".">>

SnippetLeadingDots == <<Foo, Dots \o Bar>>
SnippetTrailingDots == <<Foo \o Dots, Bar \o <<"[">> \o Dots \o <<"]">> >>
SnippetFuzzy == << <<"a", "b", "c", "d", "e">>, <<"x", "y">> >>
SnippetOneLine == << <<SP>> \o Bar \o <<SP>> >>
SnippetBlank == << <<SP, SP>> >>
SnippetOnlyDots == << <<"{">> \o Dots \o Dots \o <<"]">> >>

Snippets ==
    {SnippetLeadingDots, SnippetTrailingDots, SnippetFuzzy, SnippetOneLine,
     SnippetBlank, SnippetOnlyDots}

(***************************************************************************)
(* State.                                                                  *)
(***************************************************************************)
VARIABLES
    hunks,                \* the hunk lines the diff was written from
    snippet_lines,        \* the lines the snippet was written from
    diff,                 \* DiffRepresentation.diff
    file_content,         \* the file_content / content argument
    code_snippet,         \* the code_snippet argument of the locator
    pc,                   \* position of the running call
    old_edited,           \* result of get_line_numbers_edited_in_old_file
    new_edited,           \* result of get_line_numbers_edited_in_new_file
    newly_edited_lines,   \* local of get_extended_diff_line_ranges_by_hunk_header
    regex_results,        \* local: the markers found in the diff
    zi,                   \* position of the zip iteration (1-based)
    windows,              \* diff_line_ranges_with_increase_windows
    start_line_contents,  \* code_snippet_lines[0]
    end_line_contents,    \* code_snippet_lines[-1]
    content_lines,        \* content.split("\n")
    idx,                  \* scan_content: idx (0-based)
    fuzzy_match,          \* scan_content: the pass that is running
    line_number_ranges,   \* get_line_number_ranges_in_content: the list
    result,               \* the value returned by the finished call
    raised                \* the exception that ended the call, or "none"

vars ==
    <<hunks, snippet_lines, diff, file_content, code_snippet, pc, old_edited,
      new_edited, newly_edited_lines, regex_results, zi, windows,
      start_line_contents, end_line_contents, content_lines, idx, fuzzy_match,
      line_number_ranges, result, raised>>

diffVars == <<old_edited, new_edited, newly_edited_lines, regex_results, zi, windows>>
scanVars ==
    <<start_line_contents, end_line_contents, content_lines, idx, fuzzy_match,
      line_number_ranges>>
inputVars == <<hunks, snippet_lines, diff, file_content, code_snippet>>

InitLocals ==
    /\ old_edited = <<>>
    /\ new_edited = <<>>
    /\ newly_edited_lines = <<>>
    /\ regex_results = <<>>
    /\ zi = 0
    /\ windows = <<>>
    /\ start_line_contents = <<>>
    /\ end_line_contents = <<>>
    /\ content_lines = <<>>
    /\ idx = 0
    /\ fuzzy_match = FALSE
    /\ line_number_ranges = <<>>
    /\ result = <<>>
    /\ raised = "none"

\* a DiffRepresentation over a diff of up to MaxDiffLines hunk lines, and a file
Init ==
    /\ hunks \in SeqsUpTo(HunkLines, 0, MaxDiffLines)
    /\ diff = Join([i \in 1..Len(hunks) |-> RenderHunk(hunks[i])])
    /\ file_content \in Contents(DiffFileLines)
    /\ snippet_lines = <<>>
    /\ code_snippet = <<>>
    /\ pc = "start"
    /\ InitLocals

\* a call of find_line_number_ranges_of_code_snippet_in_content
InitLocator ==
    /\ snippet_lines \in Snippets
    /\ code_snippet = Join(snippet_lines)
    /\ file_content \in Contents(LocatorFileLines)
    /\ hunks = <<>>
    /\ diff = <<>>
    /\ pc = "find"
    /\ InitLocals

(***************************************************************************)
(* DiffRepresentation: the three queries, called one after the other.      *)
(***************************************************************************)
QueryOldFile ==
    /\ pc = "start"
    /\ old_edited' = get_line_numbers_edited_in_old_file(diff)
    /\ pc' = "query_new"
    /\ UNCHANGED <<inputVars, new_edited, newly_edited_lines, regex_results, zi,
                   windows, scanVars, result, raised>>

QueryNewFile ==
    /\ pc = "query_new"
    /\ new_edited' = get_line_numbers_edited_in_new_file(diff)
    /\ pc' = "extend"
    /\ UNCHANGED <<inputVars, old_edited, newly_edited_lines, regex_results, zi,
                   windows, scanVars, result, raised>>

\* get_extended_diff_line_ranges_by_hunk_header, lines 107-112
ExtendBegin ==
    /\ pc = "extend"
    /\ IF diff = <<>>
       THEN /\ result' = <<>>
            /\ pc' = "done"
            /\ UNCHANGED <<newly_edited_lines, regex_results, zi>>
       ELSE /\ newly_edited_lines' = get_line_numbers_edited_in_new_file(diff)
            /\ regex_results' = regex_diff_line_number_group(diff)
            /\ zi' = 1
            /\ pc' = "zip"
            /\ UNCHANGED result
    /\ UNCHANGED <<inputVars, old_edited, new_edited, windows, scanVars, raised>>

ZipLength == Min(Len(regex_results), Len(newly_edited_lines))

\* lines 113-122: one iteration of the zip loop
ExtendHunk ==
    /\ pc = "zip"
    /\ zi <= ZipLength
    /\ \E r \in {ExtendOverLines(Split(diff), 1, regex_results[zi],
                                  newly_edited_lines[zi], file_content)} :
           IF r.raised
           THEN /\ raised' = "IndexError"
                /\ pc' = "raised"
                /\ UNCHANGED <<newly_edited_lines, windows, zi>>
           ELSE /\ newly_edited_lines' = [newly_edited_lines EXCEPT ![zi] = r.range]
                /\ windows' = Append(windows, r.range)
                /\ zi' = zi + 1
                /\ UNCHANGED <<pc, raised>>
    /\ UNCHANGED <<inputVars, old_edited, new_edited, regex_results, scanVars, result>>

\* line 123
ExtendReturn ==
    /\ pc = "zip"
    /\ zi > ZipLength
    /\ result' = windows
    /\ pc' = "done"
    /\ UNCHANGED <<inputVars, diffVars, scanVars, raised>>

(***************************************************************************)
(* The locator, one step per loop iteration.                               *)
(***************************************************************************)
\* find_line_number_ranges_of_code_snippet_in_content up to the first scan
SplitAndProcess ==
    /\ pc = "find"
    /\ IF SplitRaises(code_snippet)
       THEN /\ raised' = "IndexError"
            /\ pc' = "raised"
            /\ UNCHANGED scanVars
       ELSE /\ \E code_snippet_lines \in {split_and_process_snippet(code_snippet)} :
                   /\ start_line_contents' = code_snippet_lines[1]
                   /\ end_line_contents' =
                          code_snippet_lines[Len(code_snippet_lines)]
            /\ content_lines' = Split(file_content)
            /\ line_number_ranges' = <<>>
            /\ idx' = 0
            /\ fuzzy_match' = FALSE
            /\ pc' = "scan"
            /\ UNCHANGED raised
    /\ UNCHANGED <<inputVars, diffVars, result>>

\* scan_content: one iteration of the while loop
ScanStep ==
    /\ pc = "scan"
    /\ idx < Len(content_lines)
    /\ \E it \in {ScanIteration(idx, line_number_ranges, content_lines,
                                  start_line_contents, end_line_contents,
                                  fuzzy_match)} :
           /\ idx' = it.idx
           /\ line_number_ranges' = it.ranges
    /\ UNCHANGED <<inputVars, diffVars, pc, start_line_contents, end_line_contents,
                   content_lines, fuzzy_match, result, raised>>

\* lines 65-66: the exact pass is over and found nothing
StartFuzzyPass ==
    /\ pc = "scan"
    /\ idx >= Len(content_lines)
    /\ ~fuzzy_match
    /\ NeedsFuzzyPass(line_number_ranges)
    /\ fuzzy_match' = TRUE
    /\ idx' = 0
    /\ UNCHANGED <<inputVars, diffVars, pc, start_line_contents, end_line_contents,
                   content_lines, line_number_ranges, result, raised>>

\* lines 72-74 and 80: the last pass is over, the list is returned
FinishScan ==
    /\ pc = "scan"
    /\ idx >= Len(content_lines)
    /\ fuzzy_match \/ ~NeedsFuzzyPass(line_number_ranges)
    /\ result' = line_number_ranges
    /\ pc' = "done"
    /\ UNCHANGED <<inputVars, diffVars, scanVars, raised>>

Next ==
    \/ QueryOldFile
    \/ QueryNewFile
    \/ ExtendBegin
    \/ ExtendHunk
    \/ ExtendReturn

Spec == Init /\ [][Next]_vars

NextLocator ==
    \/ SplitAndProcess
    \/ ScanStep
    \/ StartFuzzyPass
    \/ FinishScan

SpecLocator == InitLocator /\ [][NextLocator]_vars

\* the call is one sequential computation: it goes on while it can take a step
SpecLocatorFair == SpecLocator /\ WF_vars(NextLocator)

(***************************************************************************)
(* What the hunk lines of the diff say, for the properties below.          *)
(***************************************************************************)
IsFour(h) == h.form = "four"
IsSingle(h) == h.form = "single"
IsFourOrSingle(h) == h.form \in {"four", "single"}

\* the count a header states, 1 when it states none
OldCountOf(h) == IF IsFour(h) THEN h.oc ELSE 1
NewCountOf(h) == IF IsFour(h) THEN h.nc ELSE 1

OldRangeOf(h) == LineNumberRange(h.o, h.o + OldCountOf(h))
NewRangeOf(h) == LineNumberRange(h.n, h.n + NewCountOf(h))

\* the text after the closing @@ of the header
TrailingContext(h) == Strip(h.rest)
HasContext(h) == TrailingContext(h) # <<>>
LocatedFor(h) ==
    find_line_number_ranges_of_code_snippet_in_content(TrailingContext(h), file_content)
ContextLocated(h) == HasContext(h) /\ LocatedFor(h) # <<>>

\* the two parsing queries have returned
Parsed == pc \in {"extend", "zip", "done", "raised"}

\* C1: every range of hunk parsing ends at start + count: when all headers of
\* the diff are four-number headers, header i yields [O, O+oC] and [N, N+nC];
\* when none is, the single-number headers yield [O, O+1] and [N, N+1].
C1_RangeEndIsStartPlusCount ==
    Parsed =>
        /\ (\A i \in 1..Len(hunks) : IsFour(hunks[i])) =>
               /\ Len(old_edited) = Len(hunks)
               /\ Len(new_edited) = Len(hunks)
               /\ \A i \in 1..Len(hunks) :
                      /\ old_edited[i] =
                             LineNumberRange(hunks[i].o, hunks[i].o + hunks[i].oc)
                      /\ new_edited[i] =
                             LineNumberRange(hunks[i].n, hunks[i].n + hunks[i].nc)
        /\ (\A i \in 1..Len(hunks) : ~IsFour(hunks[i])) =>
               /\ Len(old_edited) = Len(SelectSeq(hunks, IsSingle))
               /\ Len(new_edited) = Len(SelectSeq(hunks, IsSingle))
               /\ \A i \in 1..Len(SelectSeq(hunks, IsSingle)) :
                      /\ old_edited[i] =
                             LineNumberRange(SelectSeq(hunks, IsSingle)[i].o,
                                             SelectSeq(hunks, IsSingle)[i].o + 1)
                      /\ new_edited[i] =
                             LineNumberRange(SelectSeq(hunks, IsSingle)[i].n,
                                             SelectSeq(hunks, IsSingle)[i].n + 1)

\* two different four-number headers parsed, one of them with a count of 0
C1_Witness ==
    /\ pc = "extend"
    /\ hunks = <<HunkFourPlain, HunkFourContext>>
    /\ new_edited = <<LineNumberRange(12, 16), LineNumberRange(2, 5)>>

\* C2: with k headers of the four-number or the single-number form, mixed or
\* not, each query returns k ranges and range i comes from header i.
C2_OnePairPerHunk ==
    Parsed =>
        /\ Len(old_edited) = Len(SelectSeq(hunks, IsFourOrSingle))
        /\ Len(new_edited) = Len(SelectSeq(hunks, IsFourOrSingle))
        /\ \A i \in 1..Len(SelectSeq(hunks, IsFourOrSingle)) :
               /\ old_edited[i] = OldRangeOf(SelectSeq(hunks, IsFourOrSingle)[i])
               /\ new_edited[i] = NewRangeOf(SelectSeq(hunks, IsFourOrSingle)[i])

\* C3: every four-number or single-number hunk whose trailing context is
\* located gets the start of the first range located for its own context,
\* hunk i being paired with range i.
C3_StartFromOwnContext ==
    pc = "done" =>
        \A i \in 1..Len(SelectSeq(hunks, IsFourOrSingle)) :
            ContextLocated(SelectSeq(hunks, IsFourOrSingle)[i]) =>
                /\ i <= Len(result)
                /\ result[i].start_number =
                       LocatedFor(SelectSeq(hunks, IsFourOrSingle)[i])[1].start_number

\* C4: expansion never moves a start later: every expanded range starts at or
\* before the start the new-file query computes for it, and start <= end.
C4_StartOnlyMovesEarlier ==
    pc = "done" =>
        \A i \in 1..Len(result) :
            /\ i <= Len(new_edited)
            /\ result[i].start_number <= new_edited[i].start_number
            /\ result[i].start_number <= result[i].end_number

\* the hunk lines the ranges of the parsing queries come from, in order
RangeHunks ==
    IF \E i \in 1..Len(hunks) : IsFour(hunks[i])
    THEN SelectSeq(hunks, IsFour)
    ELSE SelectSeq(hunks, IsSingle)

\* C5: expanded range i keeps the end of new range i, and is new range i
\* when hunk i has no trailing context or its context is not located.
C5_EndKeptAndUnlocatedUnchanged ==
    pc = "done" =>
        \A i \in 1..Len(result) :
            /\ i <= Len(new_edited)
            /\ result[i].end_number = new_edited[i].end_number
            /\ ~ContextLocated(RangeHunks[i]) => result[i] = new_edited[i]

\* C6: no diff and no file content make a query raise.
C6_NeverRaises == raised = "none"

\* C10: a diff that is empty or has no header of either pattern gives the
\* empty list from the two parsing queries and from the expansion.
C10_NoHunksGiveEmptyLists ==
    (\A i \in 1..Len(hunks) : ~IsFourOrSingle(hunks[i])) =>
        /\ raised = "none"
        /\ old_edited = <<>>
        /\ new_edited = <<>>
        /\ windows = <<>>
        /\ result = <<>>

\* the expansion of a diff whose only header matches neither pattern is over
C10_Witness ==
    /\ pc = "done"
    /\ hunks = <<HunkNewCount>>
    /\ regex_results # <<>>
    /\ result = <<>>

(***************************************************************************)
(* The locator.                                                            *)
(***************************************************************************)
\* the snippet has been split and processed
Processed == pc \in {"scan", "done"}

Least(S) == CHOOSE a \in S : \A b \in S : a <= b

\* 1-based numbers of the lines that contain the text, from line `from` on
LinesContaining(text, from) ==
    {i \in from..Len(content_lines) : Contains(content_lines[i], text)}

\* C7: with a the topmost line containing the first snippet line and b the
\* first line at or after a containing the last one, the first range
\* returned is [a, b].
C7_FirstRangeIsTopmost ==
    (pc = "done" /\ LinesContaining(start_line_contents, 1) # {}) =>
        \A a \in {Least(LinesContaining(start_line_contents, 1))} :
            LinesContaining(end_line_contents, a) # {} =>
                /\ result # <<>>
                /\ result[1] =
                       LineNumberRange(a, Least(LinesContaining(end_line_contents, a)))

\* the first range starts below the first line and ends on a later line
C7_Witness ==
    /\ pc = "done"
    /\ ~fuzzy_match
    /\ result # <<>>
    /\ result[1].start_number = 2
    /\ result[1].end_number = 3
    /\ start_line_contents # end_line_contents

\* the ranges of one whole pass over the content
PassRanges(fuzzy) ==
    scan_content(0, <<>>, content_lines, start_line_contents, end_line_contents, fuzzy)

\* C8: the fuzzy pass runs only when the exact pass has ended with no range:
\* when the exact pass finds ranges they are the result, and when neither
\* pass finds one the result is empty.
C8_FuzzyOnlyAfterEmptyExact ==
    Processed =>
        /\ fuzzy_match => PassRanges(FALSE) = <<>>
        /\ (pc = "done" /\ PassRanges(FALSE) # <<>>) =>
               (~fuzzy_match /\ result = PassRanges(FALSE))
        /\ (pc = "done" /\ PassRanges(FALSE) = <<>> /\ PassRanges(TRUE) = <<>>) =>
               result = <<>>

\* the exact pass found two ranges and they were returned
C8_Witness ==
    /\ pc = "done"
    /\ ~fuzzy_match
    /\ Len(result) = 2

\* C9 as stated: the snippet with lines `foo(` and `...bar)` becomes the
\* lines `foo(` and `bar)`.
C9_LeadingMarkerRemoved ==
    (Processed /\ snippet_lines = SnippetLeadingDots) =>
        /\ start_line_contents = Foo
        /\ end_line_contents = Bar

Markers ==
    {open \o Dots \o close :
        open \in {<<>>, <<"[">>, <<"{">>}, close \in {<<>>, <<"]">>, <<"}">>}}

EndsWith(s, suffix) ==
    /\ Len(suffix) <= Len(s)
    /\ SubSeq(s, Len(s) - Len(suffix) + 1, Len(s)) = suffix

\* the line without the longest marker it ends with
WithoutTrailingMarker(s) ==
    IF \E m \in Markers : EndsWith(s, m)
    THEN SubSeq(s, 1, Len(s) - Len(CHOOSE m \in Markers :
                                       /\ EndsWith(s, m)
                                       /\ \A n \in Markers :
                                              EndsWith(s, n) => Len(n) <= Len(m)))
    ELSE s

\* C9 amended: the marker is removed from the first and the last line only
\* where it ends the line (twice from the only line of a one-line snippet);
\* `foo(` and `...bar)` stay as they are, `foo(...` and `bar)[...]` become
\* `foo(` and `bar)`.
C9_TrailingMarkerRemoved ==
    Processed =>
        /\ Len(snippet_lines) = 2 =>
               /\ start_line_contents =
                      Strip(WithoutTrailingMarker(LStrip(snippet_lines[1])))
               /\ end_line_contents =
                      Strip(WithoutTrailingMarker(RStrip(snippet_lines[2])))
        /\ Len(snippet_lines) = 1 =>
               /\ start_line_contents =
                      Strip(WithoutTrailingMarker(
                                WithoutTrailingMarker(Strip(snippet_lines[1]))))
               /\ end_line_contents = start_line_contents
        /\ snippet_lines = SnippetLeadingDots =>
               (start_line_contents = Foo /\ end_line_contents = Dots \o Bar)
        /\ snippet_lines = SnippetTrailingDots =>
               (start_line_contents = Foo /\ end_line_contents = Bar)

\* the snippet `foo(` / `...bar)` has been processed and kept its marker
C9_Witness ==
    /\ pc = "scan"
    /\ snippet_lines = SnippetLeadingDots
    /\ end_line_contents = Dots \o Bar

\* the similarity test of the fuzzy pass against a line of the content
ScoresAbove(text, line_number) ==
    FuzzRatio(text, Strip(content_lines[line_number])) > FuzzThreshold

\* C11: every range [s, e] the fuzzy pass returns has a start line s that
\* scores above 90 against the first snippet line and an end line e that
\* scores above 90 against the last snippet line; a line that only contains
\* the last snippet line is not accepted as an end.
C11_FuzzyRangeEndsScoreAboveThreshold ==
    (pc = "done" /\ fuzzy_match) =>
        \A k \in 1..Len(result) :
            /\ ScoresAbove(start_line_contents, result[k].start_number)
            /\ ScoresAbove(end_line_contents, result[k].end_number)

\* C12: the list of get_line_number_ranges_in_content is ordered and
\* non-overlapping: every range has 1 <= start_number <= end_number <= number
\* of content lines, and starts after the end of the range before it; the
\* list returned is this list.
C12_RangesOrderedAndDisjoint ==
    Processed =>
        /\ \A k \in 1..Len(line_number_ranges) :
               /\ 1 <= line_number_ranges[k].start_number
               /\ line_number_ranges[k].start_number
                      <= line_number_ranges[k].end_number
               /\ line_number_ranges[k].end_number <= Len(content_lines)
               /\ k > 1 => line_number_ranges[k].start_number
                               > line_number_ranges[k - 1].end_number
        /\ pc = "done" => result = line_number_ranges

\* three ranges were returned, the second one found after the end of the
\* first
C12_Witness ==
    /\ pc = "done"
    /\ Len(result) = 3
    /\ result[2].start_number = result[1].end_number + 1

\* the call has returned or raised
Terminated == pc \in {"done", "raised"}

\* C13: get_line_number_ranges_in_content terminates: the index stays within
\* 0..number of content lines and every iteration of a pass strictly
\* increases it, the pass changes only from the exact one to the fuzzy one,
\* and the call eventually returns.
C13_ScanTerminates ==
    /\ [](pc = "scan" => idx \in 0..Len(content_lines))
    /\ [][(pc = "scan" /\ pc' = "scan" /\ fuzzy_match' = fuzzy_match)
              => idx' > idx]_vars
    /\ [][fuzzy_match => fuzzy_match']_vars
    /\ <>Terminated

\* both passes ran over a content of three lines or more, an iteration of
\* the fuzzy pass went on after the end of a range of several lines, and the
\* call returned
C13_Witness ==
    /\ pc = "done"
    /\ fuzzy_match
    /\ Len(content_lines) >= 3
    /\ idx = Len(content_lines)
    /\ result # <<>>
    /\ result[1].end_number > result[1].start_number

====
